---------------------------- MODULE Spec2Model ----------------------------
(***************************************************************************)
(* Model of the role-claiming bot in src/Bot/complaint_management_bot.py. *)
(*                                                                         *)
(* State: the two module-level dictionaries ASSIGNMENTS and                *)
(* PENDING_CONFIRM.  Every handler is a coroutine on one asyncio event     *)
(* loop; the part of a handler that reads and writes the dictionaries      *)
(* contains no await, so each handler is one atomic step on the state.     *)
(* `update` is the inbound event the last step handled, `notice` the reply *)
(* that handler produced.  `released` and `dropped` keep what the last     *)
(* handler removed: the claimants a reset released, and the pending key of *)
(* the caller that a button press overwrote or popped.  `inflight` holds   *)
(* the handlers that are suspended at an await.                            *)
(***************************************************************************)
EXTENDS Integers, Sequences, FiniteSets, TLC

VARIABLES ASSIGNMENTS, PENDING_CONFIRM, update, notice, released, dropped,
          race, inflight

vars == <<ASSIGNMENTS, PENDING_CONFIRM, update, notice, released, dropped,
          race, inflight>>

---------------------------------------------------------------------------
(* Bounds *)

\* number of catalog entries of PROJECT_ROLES that the model keeps
NumRoles == 2

\* number of distinct Telegram users that send events
NumUsers == 2

\* number of handlers that may be suspended at an await at the same time
MaxInFlight == 2

---------------------------------------------------------------------------
(* Static data *)

\* Python's None, where a role key or a notice is expected
None == "None"

\* the catalog of the source, in its order (key and display name)
ALL_ROLES ==
    << [key |-> "pm",       name |-> "Project Manager & System Analyst"],
       [key |-> "backend",  name |-> "Backend Developer"],
       [key |-> "frontend", name |-> "Frontend Developer"],
       [key |-> "ml",       name |-> "Machine Learning & Automation Engineer"],
       [key |-> "devops",   name |-> "Database, DevOps & Testing Engineer"] >>

PROJECT_ROLES == SubSeq(ALL_ROLES, 1, NumRoles)

\* what get_role_by_key returns when no catalog entry matches (None)
NoRole == [key |-> None, name |-> None]

Users == 1 .. NumUsers

\* display names a user may carry on an event (user.full_name)
FullNames == {"Ann", "Bob"}

\* the comma-separated entries of the ADMIN_IDS environment value, stripped:
\* an entry counts only if it consists of digits
ADMIN_IDS_ENV ==
    << [isdigit |-> TRUE, value |-> 1], [isdigit |-> FALSE, value |-> 2] >>

ADMIN_IDS ==
    { ADMIN_IDS_ENV[i].value :
        i \in { j \in DOMAIN ADMIN_IDS_ENV : ADMIN_IDS_ENV[j].isdigit } }

\* a role key that is in no catalog entry
UnknownKey == "qa"

CatalogKeys == { PROJECT_ROLES[i].key : i \in DOMAIN PROJECT_ROLES }

\* callback_data strings, each given as its split on ":" (data.split(":")):
\* "select:pm" is <<"select", "pm">>, "noop" is <<"noop">>
CallbackData ==
    { <<"noop">>, <<"cancel">>, <<"help">> }
        \cup { <<"select", k>> : k \in CatalogKeys \cup {UnknownKey} }
        \cup { <<"confirm", k>> : k \in CatalogKeys \cup {UnknownKey} }

---------------------------------------------------------------------------
(* Utility functions *)

get_role_by_key(role_key) ==
    LET matching == SelectSeq(PROJECT_ROLES, LAMBDA role : role.key = role_key)
    IN  IF matching = <<>> THEN NoRole ELSE Head(matching)

get_user_role_none(user_id) == None

\* the source returns the first matching key in the dict's order; the
\* handlers that write state read only whether the result is None
get_user_role(user_id) ==
    LET keys == { key \in DOMAIN ASSIGNMENTS : ASSIGNMENTS[key].user_id = user_id }
    IN  IF keys = {} THEN None ELSE CHOOSE key \in keys : TRUE

is_admin_everyone(user_id) == TRUE

is_admin(user_id) == user_id \in ADMIN_IDS

\* one line of the status text per catalog role, in catalog order
get_assignments_text ==
    [ i \in DOMAIN PROJECT_ROLES |->
        LET role == PROJECT_ROLES[i]
        IN  IF role.key \in DOMAIN ASSIGNMENTS
            THEN << "assigned", role.name,
                    ASSIGNMENTS[role.key].name, ASSIGNMENTS[role.key].user_id >>
            ELSE << "available", role.name >> ]

\* a keyboard that offers every role for selection
role_selection_keyboard_all_select ==
    [ i \in DOMAIN PROJECT_ROLES |->
        [text |-> << PROJECT_ROLES[i].name >>,
         callback_data |-> <<"select", PROJECT_ROLES[i].key>>] ]

\* one button per catalog role, in catalog order: its text and callback_data
role_selection_keyboard ==
    [ i \in DOMAIN PROJECT_ROLES |->
        LET role == PROJECT_ROLES[i]
        IN  IF role.key \in DOMAIN ASSIGNMENTS
            THEN [text |-> << role.name, "Taken by", ASSIGNMENTS[role.key].name >>,
                  callback_data |-> <<"noop">>]
            ELSE [text |-> << role.name >>,
                  callback_data |-> <<"select", role.key>>] ]

---------------------------------------------------------------------------
(* Dictionary operations *)

\* d[k] = v
DictSet(d, k, v) == [ x \in DOMAIN d \cup {k} |-> IF x = k THEN v ELSE d[x] ]

\* d.pop(k, None)
DictPop(d, k) == [ x \in DOMAIN d \ {k} |-> d[x] ]

\* {} and d.clear()
EmptyDict == <<>>

\* what a handler leaves behind: the two dictionaries and its reply
Outcome(a, p, n) == [ASSIGNMENTS |-> a, PENDING_CONFIRM |-> p, notice |-> n]

Unchanged(n) == Outcome(ASSIGNMENTS, PENDING_CONFIRM, n)

---------------------------------------------------------------------------
(* roles_callback: the branches on callback_data *)

\* data.startswith(prefix + ":")
StartsWith(data, prefix) == Len(data) >= 2 /\ data[1] = prefix

\* select that records the selection before it checks anything
select_branch_pending_first(user_id, role_key) ==
    IF role_key \in DOMAIN ASSIGNMENTS
    THEN Outcome(ASSIGNMENTS, DictSet(PENDING_CONFIRM, user_id, role_key),
                 "SelectRoleTaken")
    ELSE IF get_user_role(user_id) # None
    THEN Outcome(ASSIGNMENTS, DictSet(PENDING_CONFIRM, user_id, role_key),
                 "SelectAlreadyAssigned")
    ELSE IF get_role_by_key(role_key) = NoRole
    THEN Outcome(ASSIGNMENTS, DictSet(PENDING_CONFIRM, user_id, role_key),
                 "InvalidRole")
    ELSE Outcome(ASSIGNMENTS,
                 DictSet(PENDING_CONFIRM, user_id, role_key),
                 "ConfirmPrompt")

\* select that keeps an earlier pending selection (dict.setdefault)
select_branch_keep_first(user_id, role_key) ==
    IF role_key \in DOMAIN ASSIGNMENTS
    THEN Unchanged("SelectRoleTaken")
    ELSE IF get_user_role(user_id) # None
    THEN Unchanged("SelectAlreadyAssigned")
    ELSE IF get_role_by_key(role_key) = NoRole
    THEN Unchanged("InvalidRole")
    ELSE Outcome(ASSIGNMENTS,
                 IF user_id \in DOMAIN PENDING_CONFIRM
                 THEN PENDING_CONFIRM
                 ELSE DictSet(PENDING_CONFIRM, user_id, role_key),
                 "ConfirmPrompt")

\* select without the check that the role is still free
select_branch_no_taken_check(user_id, role_key) ==
    IF get_user_role(user_id) # None
    THEN Unchanged("SelectAlreadyAssigned")
    ELSE IF get_role_by_key(role_key) = NoRole
    THEN Unchanged("InvalidRole")
    ELSE Outcome(ASSIGNMENTS,
                 DictSet(PENDING_CONFIRM, user_id, role_key),
                 "ConfirmPrompt")

\* the "select:" branch
select_branch(user_id, role_key) ==
    IF role_key \in DOMAIN ASSIGNMENTS
    THEN Unchanged("SelectRoleTaken")
    ELSE IF get_user_role(user_id) # None
    THEN Unchanged("SelectAlreadyAssigned")
    ELSE IF get_role_by_key(role_key) = NoRole
    THEN Unchanged("InvalidRole")
    ELSE Outcome(ASSIGNMENTS,
                 DictSet(PENDING_CONFIRM, user_id, role_key),
                 "ConfirmPrompt")

\* confirm without the check that the role is still free
confirm_branch_overwrite(user_id, full_name, role_key) ==
    IF get_user_role(user_id) # None
    THEN Unchanged("ConfirmAlreadyAssigned")
    ELSE Outcome(DictSet(ASSIGNMENTS, role_key,
                         [user_id |-> user_id, name |-> full_name]),
                 DictPop(PENDING_CONFIRM, user_id),
                 IF get_role_by_key(role_key) = NoRole
                 THEN "TypeError"
                 ELSE "Congratulations")

\* confirm that drops the caller's pending selection before its checks
confirm_branch_pop_first(user_id, full_name, role_key) ==
    IF role_key \in DOMAIN ASSIGNMENTS
    THEN Outcome(ASSIGNMENTS, DictPop(PENDING_CONFIRM, user_id),
                 "ConfirmRoleTaken")
    ELSE IF get_user_role(user_id) # None
    THEN Outcome(ASSIGNMENTS, DictPop(PENDING_CONFIRM, user_id),
                 "ConfirmAlreadyAssigned")
    ELSE Outcome(DictSet(ASSIGNMENTS, role_key,
                         [user_id |-> user_id, name |-> full_name]),
                 DictPop(PENDING_CONFIRM, user_id),
                 IF get_role_by_key(role_key) = NoRole
                 THEN "TypeError"
                 ELSE "Congratulations")

\* confirm that forgets PENDING_CONFIRM.pop(user.id, None)
confirm_branch_keep_pending(user_id, full_name, role_key) ==
    IF role_key \in DOMAIN ASSIGNMENTS
    THEN Unchanged("ConfirmRoleTaken")
    ELSE IF get_user_role(user_id) # None
    THEN Unchanged("ConfirmAlreadyAssigned")
    ELSE Outcome(DictSet(ASSIGNMENTS, role_key,
                         [user_id |-> user_id, name |-> full_name]),
                 PENDING_CONFIRM,
                 IF get_role_by_key(role_key) = NoRole
                 THEN "TypeError"
                 ELSE "Congratulations")

\* confirm that also drops every other pending selection of the role
confirm_branch_clear_role(user_id, full_name, role_key) ==
    IF role_key \in DOMAIN ASSIGNMENTS
    THEN Unchanged("ConfirmRoleTaken")
    ELSE IF get_user_role(user_id) # None
    THEN Unchanged("ConfirmAlreadyAssigned")
    ELSE Outcome(DictSet(ASSIGNMENTS, role_key,
                         [user_id |-> user_id, name |-> full_name]),
                 [ u \in { x \in DOMAIN PENDING_CONFIRM :
                             x # user_id /\ PENDING_CONFIRM[x] # role_key } |->
                     PENDING_CONFIRM[u] ],
                 IF get_role_by_key(role_key) = NoRole
                 THEN "TypeError"
                 ELSE "Congratulations")

\* the "confirm:" branch; with a key that is in no catalog entry the two
\* dictionaries are written before get_role_by_key(role_key)['name'] raises
confirm_branch(user_id, full_name, role_key) ==
    IF role_key \in DOMAIN ASSIGNMENTS
    THEN Unchanged("ConfirmRoleTaken")
    ELSE IF get_user_role(user_id) # None
    THEN Unchanged("ConfirmAlreadyAssigned")
    ELSE Outcome(DictSet(ASSIGNMENTS, role_key,
                         [user_id |-> user_id, name |-> full_name]),
                 DictPop(PENDING_CONFIRM, user_id),
                 IF get_role_by_key(role_key) = NoRole
                 THEN "TypeError"
                 ELSE "Congratulations")

\* cancel with PENDING_CONFIRM.pop(user.id), which raises when nothing is pending
cancel_branch_strict(user_id) ==
    IF user_id \in DOMAIN PENDING_CONFIRM
    THEN Outcome(ASSIGNMENTS, DictPop(PENDING_CONFIRM, user_id), "Cancelled")
    ELSE Unchanged("KeyError")

\* the "cancel" branch
cancel_branch(user_id) ==
    Outcome(ASSIGNMENTS, DictPop(PENDING_CONFIRM, user_id), "Cancelled")

\* PENDING_CONFIRM.get(user_id)
PendingOf(user_id) ==
    IF user_id \in DOMAIN PENDING_CONFIRM THEN PENDING_CONFIRM[user_id] ELSE None

\* the replies of the branches that write or pop PENDING_CONFIRM[user.id]
\* (lines 164, 197 and 205)
PendingWriters == {"ConfirmPrompt", "Congratulations", "TypeError", "Cancelled"}

\* the commit of a handler's outcome, with the event it handled
Handled(handler, user_id, data, out) ==
    /\ ASSIGNMENTS' = out.ASSIGNMENTS
    /\ PENDING_CONFIRM' = out.PENDING_CONFIRM
    /\ notice' = out.notice
    /\ update' = [handler |-> handler, user_id |-> user_id, data |-> data]
    /\ dropped' = IF handler = "roles_callback" /\ out.notice \in PendingWriters
                  THEN PendingOf(user_id)
                  ELSE None

roles_callback(user_id, full_name, data) ==
    /\ Handled("roles_callback", user_id, data,
               IF data = <<"noop">>
               THEN Unchanged("NoopAlert")
               ELSE IF StartsWith(data, "select")
               THEN select_branch(user_id, data[2])
               ELSE IF StartsWith(data, "confirm")
               THEN confirm_branch(user_id, full_name, data[2])
               ELSE IF data = <<"cancel">>
               THEN cancel_branch(user_id)
               ELSE Unchanged("Answered"))
    /\ released' = {}

---------------------------------------------------------------------------
(* Command handlers *)

\* /roles that starts the caller's selection over
start_or_roles_restart(user_id) ==
    /\ Handled("start_or_roles", user_id, <<>>,
               Outcome(ASSIGNMENTS, DictPop(PENDING_CONFIRM, user_id), "RolesList"))
    /\ released' = {}

start_or_roles(user_id) ==
    /\ Handled("start_or_roles", user_id, <<>>, Unchanged("RolesList"))
    /\ released' = {}

status(user_id) ==
    /\ Handled("status", user_id, <<>>, Unchanged("StatusText"))
    /\ released' = {}

\* role['name'] raises when the caller's key is in no catalog entry
myrole(user_id) ==
    /\ Handled("myrole", user_id, <<>>,
               IF get_user_role(user_id) # None
               THEN IF get_role_by_key(get_user_role(user_id)) = NoRole
                    THEN Unchanged("TypeError")
                    ELSE Unchanged("YourRole")
               ELSE Unchanged("NoRoleYet"))
    /\ released' = {}

\* reset that clears before it checks the caller
reset_branch_clear_first(user_id) ==
    IF ~ is_admin(user_id)
    THEN Outcome(EmptyDict, EmptyDict, "Unauthorized")
    ELSE Outcome(EmptyDict, EmptyDict, "ResetDone")

\* reset that forgets ASSIGNMENTS.clear()
reset_branch_pending_only(user_id) ==
    IF ~ is_admin(user_id)
    THEN Unchanged("Unauthorized")
    ELSE Outcome(ASSIGNMENTS, EmptyDict, "ResetDone")

reset_branch(user_id) ==
    IF ~ is_admin(user_id)
    THEN Unchanged("Unauthorized")
    ELSE Outcome(EmptyDict, EmptyDict, "ResetDone")

\* `released` keeps the claimants whose Assignment this reset removed
reset(user_id) ==
    /\ Handled("reset", user_id, <<>>, reset_branch(user_id))
    /\ released' = { ASSIGNMENTS[k].user_id :
                       k \in DOMAIN ASSIGNMENTS \ DOMAIN reset_branch(user_id).ASSIGNMENTS }

---------------------------------------------------------------------------
(* The bot: any user sends any event *)

NoRace == [role |-> None, todo |-> <<>>]

Init ==
    /\ ASSIGNMENTS = EmptyDict
    /\ PENDING_CONFIRM = EmptyDict
    /\ update = [handler |-> None, user_id |-> 0, data |-> <<>>]
    /\ notice = None
    /\ released = {}
    /\ dropped = None
    /\ race = NoRace
    /\ inflight = {}

OnCallbackQuery ==
    /\ \E user_id \in Users, full_name \in FullNames, data \in CallbackData :
          roles_callback(user_id, full_name, data)
    /\ UNCHANGED <<race, inflight>>

OnStartOrRoles ==
    /\ \E user_id \in Users : start_or_roles(user_id)
    /\ UNCHANGED <<race, inflight>>

OnStatus ==
    /\ \E user_id \in Users : status(user_id)
    /\ UNCHANGED <<race, inflight>>

OnMyRole ==
    /\ \E user_id \in Users : myrole(user_id)
    /\ UNCHANGED <<race, inflight>>

OnReset ==
    /\ \E user_id \in Users : reset(user_id)
    /\ UNCHANGED <<race, inflight>>

Next ==
    \/ OnCallbackQuery
    \/ OnStartOrRoles
    \/ OnStatus
    \/ OnMyRole
    \/ OnReset

Spec == Init /\ [][Next]_vars

---------------------------------------------------------------------------
(* The race of two claimants for one role: each presses the role's button  *)
(* and then Confirm; the two handlers of one claimant run in that order,   *)
(* the handlers of the two claimants in any order.                         *)

\* the states the race may start in: the role is free, the two claimants
\* hold no role, the other users hold other catalog roles or none, and
\* users without a role may have a pending selection
RaceStart(role_key, racers) ==
    /\ \E holders \in SUBSET (Users \ racers) :
         \E keyOf \in [holders -> CatalogKeys \ {role_key}],
            nameOf \in [holders -> FullNames] :
            /\ \A h1, h2 \in holders : keyOf[h1] = keyOf[h2] => h1 = h2
            /\ ASSIGNMENTS =
                 [ k \in { keyOf[h] : h \in holders } |->
                     LET h == CHOOSE x \in holders : keyOf[x] = k
                     IN  [user_id |-> h, name |-> nameOf[h]] ]
            /\ \E choosers \in SUBSET (Users \ holders) :
                 PENDING_CONFIRM \in [choosers -> CatalogKeys]
    /\ race = [role |-> role_key,
               todo |-> [ u \in racers |->
                            << <<"select", role_key>>, <<"confirm", role_key>> >> ]]

InitRace ==
    /\ \E role_key \in CatalogKeys, u1 \in Users, u2 \in Users :
          u1 # u2 /\ RaceStart(role_key, {u1, u2})
    /\ update = [handler |-> None, user_id |-> 0, data |-> <<>>]
    /\ notice = None
    /\ released = {}
    /\ dropped = None
    /\ inflight = {}

\* a racer's next button press is handled
RaceStep ==
    \E user_id \in DOMAIN race.todo, full_name \in FullNames :
        /\ race.todo[user_id] # <<>>
        /\ roles_callback(user_id, full_name, Head(race.todo[user_id]))
        /\ race' = [race EXCEPT !.todo[user_id] = Tail(@)]
        /\ UNCHANGED inflight

RaceDone == \A u \in DOMAIN race.todo : race.todo[u] = <<>>

SpecRace == InitRace /\ [][RaceStep]_vars

---------------------------------------------------------------------------
(* The handlers as coroutines: a handler runs until its next await, where  *)
(* it is suspended and any other handler may run.  roles_callback awaits   *)
(* query.answer() (line 139) before it reads the dictionaries, and then    *)
(* runs to the one await of its branch (the alert of an early return, or   *)
(* edit_message_text after the writes).  reset runs its check and its two  *)
(* clear() calls before its only await (reply_text).                       *)

\* a handler suspended at an await, with the event fields it still reads:
\* after the last await of its path it reads none
Suspended(handler, user_id, data, pc) ==
    IF pc = "await_reply"
    THEN [handler |-> handler, user_id |-> 0, data |-> <<>>, pc |-> pc]
    ELSE [handler |-> handler, user_id |-> user_id, data |-> data, pc |-> pc]

\* the button presses whose branch writes a dictionary: select and confirm
\* of a catalog role, and cancel
AsyncData == { d \in CallbackData :
                 \/ d = <<"cancel">>
                 \/ Len(d) >= 2 /\ d[2] \in CatalogKeys }

\* the display name on the events of the concurrent handlers
AsyncName == CHOOSE n \in FullNames : TRUE

\* what roles_callback does with the dictionaries between line 140 and the
\* await of its branch
callback_body(user_id, full_name, data) ==
    IF data = <<"noop">>
    THEN Unchanged("NoopAlert")
    ELSE IF StartsWith(data, "select")
    THEN select_branch(user_id, data[2])
    ELSE IF StartsWith(data, "confirm")
    THEN confirm_branch(user_id, full_name, data[2])
    ELSE IF data = <<"cancel">>
    THEN cancel_branch(user_id)
    ELSE Unchanged("Answered")

\* a confirm branch that awaits between its checks and its writes: the
\* handler is suspended after the checks and writes when it is resumed
resume_await_before_write(h, full_name) ==
    IF h.pc = "await_answer"
    THEN IF /\ StartsWith(h.data, "confirm")
            /\ confirm_branch(h.user_id, full_name, h.data[2]).notice
                 \in {"Congratulations", "TypeError"}
         THEN [out |-> Unchanged(notice), pc |-> "await_checked"]
         ELSE [out |-> callback_body(h.user_id, full_name, h.data),
               pc |-> "await_reply"]
    ELSE IF h.pc = "await_checked"
    THEN [out |-> Outcome(DictSet(ASSIGNMENTS, h.data[2],
                                  [user_id |-> h.user_id, name |-> full_name]),
                          DictPop(PENDING_CONFIRM, h.user_id),
                          "Congratulations"),
          pc |-> "await_reply"]
    ELSE [out |-> Unchanged(notice), pc |-> "done"]

\* a suspended handler runs on to its next await, or to its end
resume(h, full_name) ==
    IF h.pc = "await_answer"
    THEN [out |-> callback_body(h.user_id, full_name, h.data),
          pc |-> "await_reply"]
    ELSE [out |-> Unchanged(notice), pc |-> "done"]

\* the event loop starts roles_callback for a button press: it runs to
\* await query.answer()
AsyncCallbackQuery ==
    /\ Cardinality(inflight) < MaxInFlight
    /\ \E user_id \in Users, data \in AsyncData :
          inflight' = inflight \cup
                        {Suspended("roles_callback", user_id, data, "await_answer")}
    /\ UNCHANGED <<ASSIGNMENTS, PENDING_CONFIRM, update, notice, released,
                   dropped, race>>

\* the event loop starts reset for /reset: it runs to await reply_text
AsyncReset ==
    /\ Cardinality(inflight) < MaxInFlight
    /\ \E user_id \in Users :
          /\ ASSIGNMENTS' = reset_branch(user_id).ASSIGNMENTS
          /\ PENDING_CONFIRM' = reset_branch(user_id).PENDING_CONFIRM
          /\ inflight' = inflight \cup
                           {Suspended("reset", user_id, <<>>, "await_reply")}
    /\ UNCHANGED <<update, notice, released, dropped, race>>

\* the event loop resumes a suspended handler
AsyncResume ==
    /\ \E h \in inflight :
          LET r == resume(h, AsyncName)
          IN  /\ ASSIGNMENTS' = r.out.ASSIGNMENTS
              /\ PENDING_CONFIRM' = r.out.PENDING_CONFIRM
              /\ inflight' = (inflight \ {h}) \cup
                               (IF r.pc = "done"
                                THEN {}
                                ELSE {Suspended(h.handler, h.user_id, h.data, r.pc)})
    /\ UNCHANGED <<update, notice, released, dropped, race>>

NextAsync ==
    \/ AsyncCallbackQuery
    \/ AsyncReset
    \/ AsyncResume

SpecAsync == Init /\ [][NextAsync]_vars

---------------------------------------------------------------------------
(* Properties *)

\* the claimants that hold an Assignment
Holders == { ASSIGNMENTS[k].user_id : k \in DOMAIN ASSIGNMENTS }

\* every role key an event may carry
EventKeys == CatalogKeys \cup {UnknownKey}

\* the step handled this button press of user u
SelectBy(u, k) ==
    update' = [handler |-> "roles_callback", user_id |-> u, data |-> <<"select", k>>]

ConfirmBy(u, k) ==
    update' = [handler |-> "roles_callback", user_id |-> u, data |-> <<"confirm", k>>]

\* the step handled /reset of user u
ResetBy(u) ==
    update' = [handler |-> "reset", user_id |-> u, data |-> <<>>]

\* the step left both dictionaries as they were
StoreUnchanged ==
    /\ ASSIGNMENTS' = ASSIGNMENTS
    /\ PENDING_CONFIRM' = PENDING_CONFIRM

\* the status text of the initial state: every catalog role available
InitialText ==
    [ i \in DOMAIN PROJECT_ROLES |-> << "available", PROJECT_ROLES[i].name >> ]

\* C1: a confirm for a role that already has an Assignment leaves that
\* role with its one Assignment and its claimant, and adds no Assignment.
C1_RoleExclusive ==
    [][ \A u \in Users : \A k \in DOMAIN ASSIGNMENTS :
          ConfirmBy(u, k) =>
            /\ DOMAIN ASSIGNMENTS' = DOMAIN ASSIGNMENTS
            /\ ASSIGNMENTS'[k] = ASSIGNMENTS[k]
            /\ Cardinality({ c \in Users : \E r \in DOMAIN ASSIGNMENTS' :
                               r = k /\ ASSIGNMENTS'[r].user_id = c }) = 1 ]_vars

\* a confirm by another claimant for a role that is taken was refused
C1_Witness ==
    /\ notice = "ConfirmRoleTaken"
    /\ update.data[2] \in DOMAIN ASSIGNMENTS
    /\ ASSIGNMENTS[update.data[2]].user_id # update.user_id

\* C2: in every reachable state no claimant is the user_id of two entries
\* of ASSIGNMENTS.
C2_OneRolePerPerson ==
    \A c \in Users :
        Cardinality({ k \in DOMAIN ASSIGNMENTS : ASSIGNMENTS[k].user_id = c }) <= 1

\* a claimant who holds a role confirmed a second, free role and was refused
C2_Witness ==
    /\ notice = "ConfirmAlreadyAssigned"
    /\ update.user_id \in Holders
    /\ update.data[2] \notin DOMAIN ASSIGNMENTS

\* C3: when both racers have pressed select and confirm for the role, in
\* whatever order, exactly one of them holds the role, and the other holds
\* nothing and was the last to be answered, with the role-taken notice.
C3_RaceSafety ==
    RaceDone /\ DOMAIN race.todo # {} =>
        /\ race.role \in DOMAIN ASSIGNMENTS
        /\ Cardinality(DOMAIN race.todo \cap Holders) = 1
        /\ \E w \in DOMAIN race.todo :
            /\ ASSIGNMENTS[race.role].user_id = w
            /\ \A l \in DOMAIN race.todo \ {w} :
                /\ l \notin Holders
                /\ update.user_id = l
                /\ update.data = <<"confirm", race.role>>
                /\ notice = "ConfirmRoleTaken"

\* the race ended after both racers had selected before either confirmed:
\* the loser's selection was accepted and is still pending
C3_Witness ==
    /\ RaceDone /\ DOMAIN race.todo # {}
    /\ race.role \in DOMAIN ASSIGNMENTS
    /\ \E l \in DOMAIN race.todo \ Holders :
          l \in DOMAIN PENDING_CONFIRM /\ PENDING_CONFIRM[l] = race.role

\* C4: a confirm by a claimant whose pending selection is not that role
\* (or who has none) changes neither dictionary.
C4_ConfirmNeedsPending ==
    [][ \A u \in Users, k \in EventKeys :
          ( /\ ConfirmBy(u, k)
            /\ ~ (u \in DOMAIN PENDING_CONFIRM /\ PENDING_CONFIRM[u] = k) )
          => StoreUnchanged ]_vars

\* C5: a confirm for a role that is taken, or by a claimant who holds a
\* role, changes neither dictionary and is answered with the matching notice.
C5_ConfirmRevalidates ==
    [][ \A u \in Users, k \in EventKeys :
          ( ConfirmBy(u, k) /\ (k \in DOMAIN ASSIGNMENTS \/ u \in Holders) )
          => /\ StoreUnchanged
             /\ \/ notice' = "ConfirmRoleTaken" /\ k \in DOMAIN ASSIGNMENTS
                \/ notice' = "ConfirmAlreadyAssigned" /\ u \in Holders ]_vars

\* a refused confirm left the caller's own pending selection in place
C5_Witness ==
    /\ notice = "ConfirmRoleTaken"
    /\ update.user_id \in DOMAIN PENDING_CONFIRM
    /\ PENDING_CONFIRM[update.user_id] = update.data[2]

\* C6: every key of ASSIGNMENTS and every value of PENDING_CONFIRM is a
\* catalog key.
C6_KeysInCatalog ==
    /\ DOMAIN ASSIGNMENTS \subseteq CatalogKeys
    /\ \A u \in DOMAIN PENDING_CONFIRM : PENDING_CONFIRM[u] \in CatalogKeys

\* C7: /reset by a user outside the admin set changes neither dictionary
\* and is answered with the not-authorized notice.
C7_ResetUnauthorized ==
    [][ \A u \in Users \ ADMIN_IDS :
          ResetBy(u) => StoreUnchanged /\ notice' = "Unauthorized" ]_vars

\* a refused /reset with an Assignment and a pending selection in place
C7_Witness ==
    /\ update.handler = "reset"
    /\ update.user_id \notin ADMIN_IDS
    /\ notice = "Unauthorized"
    /\ ASSIGNMENTS # EmptyDict
    /\ PENDING_CONFIRM # EmptyDict

\* C8: right after /reset by an admin both dictionaries are empty, the
\* status text is that of the initial state, and every user's select and
\* confirm of every catalog role is accepted.
C8_ResetRestoresInitial ==
    (update.handler = "reset" /\ update.user_id \in ADMIN_IDS) =>
        /\ notice = "ResetDone"
        /\ ASSIGNMENTS = EmptyDict
        /\ PENDING_CONFIRM = EmptyDict
        /\ get_assignments_text = InitialText
        /\ \A u \in Users, k \in CatalogKeys :
            /\ select_branch(u, k).notice = "ConfirmPrompt"
            /\ \A n \in FullNames :
                 confirm_branch(u, n, k).notice = "Congratulations"

\* an admin's /reset removed some claimant's Assignment
C8_Witness ==
    /\ update.handler = "reset"
    /\ notice = "ResetDone"
    /\ released # {}
    /\ \E u \in released : \E k \in CatalogKeys :
          select_branch(u, k).notice = "ConfirmPrompt"

\* C9: an Assignment stays, with its claimant and display name, through
\* every step that is not /reset by an admin.
C9_AssignedAbsorbing ==
    [][ \A k \in DOMAIN ASSIGNMENTS :
          ~ (\E u \in ADMIN_IDS : ResetBy(u)) =>
            /\ k \in DOMAIN ASSIGNMENTS'
            /\ ASSIGNMENTS'[k] = ASSIGNMENTS[k] ]_vars

\* the holder of a role pressed Cancel and still holds it
C9_Witness ==
    /\ notice = "Cancelled"
    /\ update.user_id \in Holders

\* C10: a select of a taken role, by a claimant who holds a role, or of a
\* key outside the catalog changes neither dictionary and is answered with
\* the matching notice.
C10_FailedSelect ==
    [][ \A u \in Users, k \in EventKeys :
          ( /\ SelectBy(u, k)
            /\ (k \in DOMAIN ASSIGNMENTS \/ u \in Holders \/ k \notin CatalogKeys) )
          => /\ StoreUnchanged
             /\ \/ notice' = "SelectRoleTaken" /\ k \in DOMAIN ASSIGNMENTS
                \/ notice' = "SelectAlreadyAssigned" /\ u \in Holders
                \/ notice' = "InvalidRole" /\ k \notin CatalogKeys ]_vars

\* a refused select left the caller's earlier pending selection in place
C10_Witness ==
    /\ notice = "SelectRoleTaken"
    /\ update.user_id \in DOMAIN PENDING_CONFIRM
    /\ PENDING_CONFIRM[update.user_id] # update.data[2]

\* the step handled the Cancel button of user u
CancelBy(u) ==
    update' = [handler |-> "roles_callback", user_id |-> u, data |-> <<"cancel">>]

\* C11: a select of a free catalog role r2 by a claimant without a role who
\* has a pending selection leaves that claimant with the one pending
\* selection r2, changes no other claimant's pending selection and no
\* Assignment; the role selected before is assigned exactly if it was.
C11_SelectOverwrites ==
    [][ \A c \in DOMAIN PENDING_CONFIRM, r2 \in CatalogKeys :
          ( /\ SelectBy(c, r2)
            /\ r2 \notin DOMAIN ASSIGNMENTS
            /\ c \notin Holders )
          => /\ notice' = "ConfirmPrompt"
             /\ DOMAIN PENDING_CONFIRM' = DOMAIN PENDING_CONFIRM
             /\ PENDING_CONFIRM'[c] = r2
             /\ \A o \in DOMAIN PENDING_CONFIRM \ {c} :
                   PENDING_CONFIRM'[o] = PENDING_CONFIRM[o]
             /\ ASSIGNMENTS' = ASSIGNMENTS
             /\ (PENDING_CONFIRM[c] \in DOMAIN ASSIGNMENTS'
                   <=> PENDING_CONFIRM[c] \in DOMAIN ASSIGNMENTS) ]_vars

\* a select replaced the caller's pending selection of another, free role
C11_Witness ==
    /\ notice = "ConfirmPrompt"
    /\ dropped \notin {None, update.data[2]}
    /\ dropped \notin DOMAIN ASSIGNMENTS
    /\ PENDING_CONFIRM[update.user_id] = update.data[2]

\* C12: Cancel is answered as cancelled, removes at most the caller's own
\* pending selection, changes nothing when the caller has none, and a
\* second Cancel from the state it leaves would leave that state again.
C12_CancelIdempotent ==
    [][ \A c \in Users :
          CancelBy(c) =>
            /\ notice' = "Cancelled"
            /\ ASSIGNMENTS' = ASSIGNMENTS
            /\ PENDING_CONFIRM' = DictPop(PENDING_CONFIRM, c)
            /\ (c \notin DOMAIN PENDING_CONFIRM => StoreUnchanged)
            /\ cancel_branch(c)'.ASSIGNMENTS = ASSIGNMENTS'
            /\ cancel_branch(c)'.PENDING_CONFIRM = PENDING_CONFIRM'
            /\ cancel_branch(c)'.notice = "Cancelled" ]_vars

\* a Cancel of a caller with nothing pending, with other entries in place
C12_Witness ==
    /\ notice = "Cancelled"
    /\ update.data = <<"cancel">>
    /\ dropped = None
    /\ PENDING_CONFIRM # EmptyDict

\* C13: while a role has an Assignment, no step makes a pending selection
\* point to it that did not point to it before, and a select of it is
\* answered with the role-taken notice and changes neither dictionary.
C13_NoPendingOnAssigned ==
    [][ \A r \in DOMAIN ASSIGNMENTS, u \in Users :
          /\ (PendingOf(u) # r => PendingOf(u)' # r)
          /\ (SelectBy(u, r) => notice' = "SelectRoleTaken" /\ StoreUnchanged) ]_vars

\* a select of a taken role was refused and no pending selection is for it
C13_Witness ==
    /\ notice = "SelectRoleTaken"
    /\ update.data[2] \in DOMAIN ASSIGNMENTS
    /\ \A u \in Users : PendingOf(u) # update.data[2]

\* C15: in every reachable state a claimant who holds an Assignment has no
\* pending selection.
C15_HolderHasNoPending ==
    \A u \in Holders : u \notin DOMAIN PENDING_CONFIRM

\* a confirm created the caller's Assignment and popped the caller's
\* pending selection
C15_Witness ==
    /\ notice = "Congratulations"
    /\ dropped = update.data[2]
    /\ ASSIGNMENTS[update.data[2]].user_id = update.user_id
    /\ update.user_id \notin DOMAIN PENDING_CONFIRM

\* C16: a claimant's pending selection changes only in a step of that
\* claimant's own select that is accepted (to the selected role), own
\* confirm that creates the Assignment, or own Cancel (both to none), or
\* in an admin's /reset (to none).
C16_PendingFrame ==
    [][ \A c \in Users :
          PendingOf(c)' # PendingOf(c) =>
            \/ /\ \E k \in CatalogKeys : SelectBy(c, k) /\ PendingOf(c)' = k
               /\ notice' = "ConfirmPrompt"
            \/ /\ \E k \in EventKeys : ConfirmBy(c, k)
               /\ c \notin Holders /\ c \in Holders'
               /\ PendingOf(c)' = None
            \/ CancelBy(c) /\ PendingOf(c)' = None
            \/ (\E a \in ADMIN_IDS : ResetBy(a)) /\ PendingOf(c)' = None ]_vars

\* a confirm took a role for which another claimant's selection is pending,
\* and that selection is still there
C16_Witness ==
    /\ notice = "Congratulations"
    /\ \E c \in Users \ {update.user_id} : PendingOf(c) = update.data[2]

\* C17: the status text has one line per catalog role, in catalog order,
\* that reads assigned, with the claimant's display name, exactly if the
\* role has an Assignment and available otherwise, and every Assignment
\* is on a line.
C17_StatusText ==
    /\ DOMAIN get_assignments_text = DOMAIN PROJECT_ROLES
    /\ \A i \in DOMAIN PROJECT_ROLES :
         LET line == get_assignments_text[i]
             key == PROJECT_ROLES[i].key
         IN  /\ line[2] = PROJECT_ROLES[i].name
             /\ line[1] = (IF key \in DOMAIN ASSIGNMENTS
                           THEN "assigned" ELSE "available")
             /\ key \in DOMAIN ASSIGNMENTS => line[3] = ASSIGNMENTS[key].name
    /\ \A k \in DOMAIN ASSIGNMENTS :
         \E i \in DOMAIN PROJECT_ROLES :
            /\ PROJECT_ROLES[i].key = k
            /\ get_assignments_text[i][1] = "assigned"

\* C18: the keyboard has one button per catalog role, in catalog order,
\* whose callback_data is "noop" exactly if the role has an Assignment and
\* "select:<key>" otherwise.
C18_Keyboard ==
    /\ DOMAIN role_selection_keyboard = DOMAIN PROJECT_ROLES
    /\ \A i \in DOMAIN PROJECT_ROLES :
         LET key == PROJECT_ROLES[i].key
         IN  role_selection_keyboard[i].callback_data =
               (IF key \in DOMAIN ASSIGNMENTS
                THEN <<"noop">> ELSE <<"select", key>>)

\* a keyboard with a taken and a free role
C18_Witness ==
    /\ \E i \in DOMAIN PROJECT_ROLES :
          role_selection_keyboard[i].callback_data = <<"noop">>
    /\ \E i \in DOMAIN PROJECT_ROLES :
          role_selection_keyboard[i].callback_data[1] = "select"

\* the step handled a command or button press that only reads
ReadOnlyStep ==
    \/ update'.handler \in {"start_or_roles", "status", "myrole"}
    \/ update'.handler = "roles_callback" /\ update'.data = <<"noop">>

\* C19: /start, /roles, /status, /myrole and the noop button change
\* neither dictionary.
C19_ReadOnly ==
    [][ ReadOnlyStep => StoreUnchanged ]_vars

\* /roles was answered while an Assignment and a pending selection exist
C19_Witness ==
    /\ update.handler = "start_or_roles"
    /\ notice = "RolesList"
    /\ ASSIGNMENTS # EmptyDict
    /\ PENDING_CONFIRM # EmptyDict

\* C14: with the handlers suspended and resumed at their awaits in any
\* order, the step that writes an Assignment or a pending selection is the
\* step that checked for it (the role is free and the claimant holds no
\* role in the state the write starts from), so no role passes from one
\* claimant to another and no claimant holds two Assignments.
C14_AtomicCheckAndSet ==
    [][ /\ \A r \in DOMAIN ASSIGNMENTS' :
             IF r \in DOMAIN ASSIGNMENTS
             THEN ASSIGNMENTS'[r] = ASSIGNMENTS[r]
             ELSE ASSIGNMENTS'[r].user_id \notin Holders
        /\ \A c \in Users :
             /\ Cardinality({ k \in DOMAIN ASSIGNMENTS' :
                                ASSIGNMENTS'[k].user_id = c }) <= 1
             /\ PendingOf(c)' \notin {None, PendingOf(c)} =>
                  /\ PendingOf(c)' \notin DOMAIN ASSIGNMENTS
                  /\ c \notin Holders ]_vars

\* a role was assigned while another claimant's confirm of it is still
\* suspended at await query.answer()
C14_Witness ==
    \E h \in inflight :
        /\ h.pc = "await_answer"
        /\ StartsWith(h.data, "confirm")
        /\ h.data[2] \in DOMAIN ASSIGNMENTS
        /\ ASSIGNMENTS[h.data[2]].user_id # h.user_id

=============================================================================
